---- MODULE Spec2Model ----
(***************************************************************************)
(* A model of the Bali digital notary: the software security module (SSM)  *)
(* of src/src/v1/SSM.js (publicAPI, privateAPI and their private helper    *)
(* functions) and the notary wrapper that follows it in the same file.     *)
(*                                                                         *)
(* Values of the component framework are records that carry a "type"       *)
(* field.  Cryptography is symbolic: a key pair is an identifier, a        *)
(* signature names the key that made it and the message it covers, a       *)
(* digest names the message it was computed from, and an ECDH secret is    *)
(* the unordered pair of the two key pairs that agree on it.               *)
(***************************************************************************)
EXTENDS Integers, Sequences, FiniteSets, TLC

(***************************************************************************)
(* Bounds of the model.                                                    *)
(***************************************************************************)
\* number of key pairs the SSM may generate in one behaviour
MaxKeys == 2
\* last value of the clock read by bali.moment()
MaxClock == 1
\* number of file operations that may fail in one behaviour
MaxFaults == 1

(***************************************************************************)
(* Values of the component framework (external to the repository).         *)
(***************************************************************************)
UNDEFINED == [type |-> "undefined"]

NONE == [type |-> "none"]

Text(s) == [type |-> "text", chars |-> s]

Name(s) == [type |-> "name", path |-> s]

Tag(n) == [type |-> "tag", id |-> n]

Moment(t) == [type |-> "moment", at |-> t]

Version(levels) == [type |-> "version", levels |-> levels]

Association(k, v) == [key |-> k, value |-> v]

Catalog(attributes, parameters) ==
    [type |-> "catalog", attributes |-> attributes, parameters |-> parameters]

HasKey(associations, k) ==
    \E i \in DOMAIN associations : associations[i].key = k

Lookup(associations, k) ==
    IF HasKey(associations, k)
    THEN associations[CHOOSE i \in DOMAIN associations : associations[i].key = k].value
    ELSE UNDEFINED

getValue(catalog, k) == Lookup(catalog.attributes, k)

getParameter(catalog, k) == Lookup(catalog.parameters, k)

setValue(catalog, k, v) ==
    IF HasKey(catalog.attributes, k)
    THEN [catalog EXCEPT !.attributes =
              [i \in DOMAIN catalog.attributes |->
                  IF catalog.attributes[i].key = k
                  THEN Association(k, v)
                  ELSE catalog.attributes[i]]]
    ELSE [catalog EXCEPT !.attributes = Append(catalog.attributes, Association(k, v))]

RECURSIVE Pick(_, _)
Pick(catalog, keys) ==
    IF keys = << >>
    THEN << >>
    ELSE IF HasKey(catalog.attributes, Head(keys))
         THEN << Association(Head(keys), getValue(catalog, Head(keys))) >>
                  \o Pick(catalog, Tail(keys))
         ELSE Pick(catalog, Tail(keys))

\* bali.catalog.extraction(catalog, keys): the associations with the given
\* keys, in the order of the keys, under the parameters of the catalog
extraction(catalog, keys) == Catalog(Pick(catalog, keys), catalog.parameters)

getSize(catalog) == Len(catalog.attributes)

isCatalog(v) == v.type = "catalog"

\* bali.version(): the initial version v1
InitialVersion == Version(<< 1 >>)

\* bali.version.nextVersion(version): the last level incremented
nextVersion(version) ==
    Version([i \in DOMAIN version.levels |->
                IF i = Len(version.levels)
                THEN version.levels[i] + 1
                ELSE version.levels[i]])

RECURSIVE LevelsLess(_, _)
LevelsLess(a, b) ==
    IF a = << >> THEN b # << >>
    ELSE IF b = << >> THEN FALSE
    ELSE IF Head(a) # Head(b) THEN Head(a) < Head(b)
    ELSE LevelsLess(Tail(a), Tail(b))

\* the version ordering of the framework
VersionLess(v, w) == LevelsLess(v.levels, w.levels)

(***************************************************************************)
(* Canonical source text: toString() and bali.parse().                     *)
(* The text of a catalog lists its associations in order and then its      *)
(* parameters; the text of an element is the element's literal.            *)
(***************************************************************************)
RECURSIVE toString(_)
toString(v) ==
    IF v.type = "catalog"
    THEN [type |-> "source",
          items |-> [i \in DOMAIN v.attributes |->
                        [symbol |-> v.attributes[i].key,
                         text |-> toString(v.attributes[i].value)]],
          arguments |-> [i \in DOMAIN v.parameters |->
                        [symbol |-> v.parameters[i].key,
                         text |-> toString(v.parameters[i].value)]]]
    ELSE [type |-> "source", literal |-> v]

RECURSIVE parse(_)
parse(s) ==
    IF "literal" \in DOMAIN s
    THEN s.literal
    ELSE Catalog([i \in DOMAIN s.items |->
                     Association(s.items[i].symbol, parse(s.items[i].text))],
                 [i \in DOMAIN s.arguments |->
                     Association(s.arguments[i].symbol, parse(s.arguments[i].text))])

(***************************************************************************)
(* Private constants of the SSM.  A JavaScript string that holds Bali      *)
(* source is the source text of the value it parses to.                    *)
(***************************************************************************)
PROTOCOL == toString(Version(<< 1 >>))

DocumentType == toString(Name("/bali/notary/Document/v1"))

CertificateType == toString(Name("/bali/notary/Certificate/v1"))

CitationType == toString(Name("/bali/notary/Citation/v1"))

AEMType == toString(Name("/bali/notary/AEM/v1"))

NotaryKeyType == toString(Name("/bali/notary/NotaryKey/v1"))

PublicPermissions == toString(Name("/bali/permissions/public/v1"))

EOL == "\n"

\* the account that owns the notary key
accountId == Tag(0)

(***************************************************************************)
(* Private functions of the SSM: key pairs, digests, signatures, AEMs.     *)
(***************************************************************************)
PublicKey(k) == [type |-> "binary", public |-> k]

PrivateKey(k) == [type |-> "binary", private |-> k]

\* generateKeys(): the fresh key pair number k
generateKeys(k) == [publicKey |-> PublicKey(k), privateKey |-> PrivateKey(k)]

digestMessage(message) == [type |-> "binary", sha512 |-> message]

signMessage(message, privateKey) ==
    [type |-> "binary", signer |-> privateKey.private, signed |-> message]

\* signatureIsValid verifying the signing key only, whatever text was signed
signatureIsValidAnyMessage(message, publicKey, signature) ==
    /\ "signer" \in DOMAIN signature
    /\ "public" \in DOMAIN publicKey
    /\ signature.signer = publicKey.public

\* signatureIsValid verifying the signed text only, under whatever key signed it
signatureIsValidAnyKey(message, publicKey, signature) ==
    /\ "signer" \in DOMAIN signature
    /\ signature.signed = message

signatureIsValid(message, publicKey, signature) ==
    /\ "signer" \in DOMAIN signature
    /\ "public" \in DOMAIN publicKey
    /\ signature.signer = publicKey.public
    /\ signature.signed = message

\* curve.computeSecret(): both sides of an ECDH exchange derive the same secret
computeSecret(own, other) == {own, other}

\* cipher.getAuthTag(): the GCM tag binds the key, the IV and the ciphertext
AuthTag(symmetricKey, nonce, message) ==
    [type |-> "binary", tag |-> [key |-> symmetricKey, iv |-> nonce, plaintext |-> message]]

\* encryptMessage(message, publicKey) with the ephemeral key pair e, the random IV nonce
\* and the clock reading t
encryptMessage(message, publicKey, e, nonce, t) ==
    LET seed == PublicKey(e)
        symmetricKey == computeSecret(e, publicKey.public)
        iv == [type |-> "binary", nonce |-> nonce]
        ciphertext == [type |-> "binary",
                       cipher |-> [key |-> symmetricKey, iv |-> nonce, plaintext |-> message]]
        auth == AuthTag(symmetricKey, nonce, message)
    IN  Catalog(<< Association("$protocol", parse(PROTOCOL)),
                   Association("$timestamp", Moment(t)),
                   Association("$seed", seed),
                   Association("$iv", iv),
                   Association("$auth", auth),
                   Association("$ciphertext", ciphertext) >>,
                << Association("$type", parse(AEMType)) >>)

\* decryptMessage(aem, privateKey): the message, or the error thrown by decipher.final()
decryptMessage(aem, privateKey) ==
    LET seed == getValue(aem, "$seed")
        iv == getValue(aem, "$iv")
        auth == getValue(aem, "$auth")
        ciphertext == getValue(aem, "$ciphertext")
        symmetricKey == computeSecret(privateKey.private, seed.public)
        authentic ==
            /\ "public" \in DOMAIN seed
            /\ "cipher" \in DOMAIN ciphertext
            /\ "nonce" \in DOMAIN iv
            /\ ciphertext.cipher.key = symmetricKey
            /\ ciphertext.cipher.iv = iv.nonce
            /\ auth = AuthTag(symmetricKey, iv.nonce, ciphertext.cipher.plaintext)
    IN  IF authentic
        THEN [thrown |-> FALSE, message |-> ciphertext.cipher.plaintext]
        ELSE [thrown |-> TRUE, message |-> toString(UNDEFINED)]

(***************************************************************************)
(* publicAPI of the SSM.  A call returns a Completion: the value returned  *)
(* or the exception thrown.                                                *)
(***************************************************************************)
Returned(value) == [thrown |-> FALSE, exception |-> "", value |-> value]

Thrown(kind) == [thrown |-> TRUE, exception |-> kind, value |-> UNDEFINED]

Boolean(b) == [type |-> "boolean", truth |-> b]

\* citeDocument with the digest taken over the component instead of the document
citeDocumentOfComponent(document, t) ==
    LET component == getValue(document, "$component")
    IN  IF ~isCatalog(component) \/ component.parameters = << >>
        THEN Thrown("TypeError")
        ELSE Returned(Catalog(
                 << Association("$protocol", parse(PROTOCOL)),
                    Association("$timestamp", Moment(t)),
                    Association("$tag", getParameter(component, "$tag")),
                    Association("$version", getParameter(component, "$version")),
                    Association("$digest", digestMessage(toString(component))) >>,
                 << Association("$type", parse(CitationType)) >>))

\* publicAPI.citeDocument(document) at the clock reading t
citeDocument(document, t) ==
    LET component == getValue(document, "$component")
    IN  IF ~isCatalog(component) \/ component.parameters = << >>
        THEN Thrown("TypeError")
        ELSE Returned(Catalog(
                 << Association("$protocol", parse(PROTOCOL)),
                    Association("$timestamp", Moment(t)),
                    Association("$tag", getParameter(component, "$tag")),
                    Association("$version", getParameter(component, "$version")),
                    Association("$digest", digestMessage(toString(document))) >>,
                 << Association("$type", parse(CitationType)) >>))

\* citationMatches comparing the cited tag and version instead of the digest
citationMatchesByTag(citation, document) ==
    LET component == getValue(document, "$component")
    IN  /\ getValue(citation, "$tag") = getParameter(component, "$tag")
        /\ getValue(citation, "$version") = getParameter(component, "$version")

\* publicAPI.citationMatches(citation, document)
citationMatches(citation, document) ==
    digestMessage(toString(document)) = getValue(citation, "$digest")

\* documentIsValid verifying a text that leaves out the $certificate attribute
documentIsValidWithoutCertificate(document, certificate) ==
    LET component == getValue(certificate, "$component")
        catalog == extraction(document, << "$component", "$protocol", "$timestamp" >>)
        publicKey == getValue(component, "$publicKey")
        signature == getValue(document, "$signature")
    IN  signatureIsValid(toString(catalog), publicKey, signature)

\* publicAPI.documentIsValid(document, certificate)
documentIsValid(document, certificate) ==
    LET component == getValue(certificate, "$component")
        catalog == extraction(document,
                       << "$component", "$protocol", "$timestamp", "$certificate" >>)
        publicKey == getValue(component, "$publicKey")
        signature == getValue(document, "$signature")
    IN  signatureIsValid(toString(catalog), publicKey, signature)

\* publicAPI.encryptComponent(component, certificate)
encryptComponent(component, certificate, e, nonce, t) ==
    LET publicKey == getValue(getValue(certificate, "$component"), "$publicKey")
    IN  encryptMessage(toString(component), publicKey, e, nonce, t)

(***************************************************************************)
(* The state: the closure variables of privateAPI (SSM.js lines 154-163),  *)
(* the two files of the configuration directory, the clock, the random     *)
(* sources, and what the caller saw last.                                  *)
(***************************************************************************)
VARIABLES
    notaryTag,            \* the unique tag for the notary key
    version,              \* the current version of the notary key
    timestamp,            \* when the key was generated
    publicKey,            \* the public key residing in the certificate
    privateKey,           \* the private key used for signing and decryption
    notaryCertificate,    \* the notary certificate document
    certificateCitation,  \* a citation to the notary certificate
    initializeAPI,        \* TRUE while this.initializeAPI is still defined
    keyFile,              \* the content of NotaryKey.bali
    certificateFile,      \* the content of NotaryCertificate.bali
    now,                  \* the clock read by bali.moment()
    keys,                 \* how many key pairs generateKeys() has produced
    tags,                 \* how many tags bali.tag() has produced
    result,               \* the last call of the notary API and its completion
    faults,               \* how many file operations have failed
    oldCertificate,       \* the certificate replaced by the latest rotation
    forgotten,            \* forgetKey has completed and no generateKey has returned since
    unawaited             \* the calls in flight that the caller did not await

memory == << notaryTag, version, timestamp, publicKey, privateKey,
             notaryCertificate, certificateCitation, initializeAPI >>

files == << keyFile, certificateFile >>

vars == << notaryTag, version, timestamp, publicKey, privateKey, notaryCertificate,
           certificateCitation, initializeAPI, keyFile, certificateFile,
           now, keys, tags, result, faults, oldCertificate, forgotten, unawaited >>

\* the module state as one value, so that a call is a function of it
Current ==
    [notaryTag |-> notaryTag, version |-> version, timestamp |-> timestamp,
     publicKey |-> publicKey, privateKey |-> privateKey,
     notaryCertificate |-> notaryCertificate,
     certificateCitation |-> certificateCitation,
     initializeAPI |-> initializeAPI,
     keyFile |-> keyFile, certificateFile |-> certificateFile]

Install(s) ==
    /\ notaryTag' = s.notaryTag
    /\ version' = s.version
    /\ timestamp' = s.timestamp
    /\ publicKey' = s.publicKey
    /\ privateKey' = s.privateKey
    /\ notaryCertificate' = s.notaryCertificate
    /\ certificateCitation' = s.certificateCitation
    /\ initializeAPI' = s.initializeAPI
    /\ keyFile' = s.keyFile
    /\ certificateFile' = s.certificateFile

Outcome(s, completion) == [state |-> s, completion |-> completion]

(***************************************************************************)
(* Files.                                                                  *)
(***************************************************************************)
ABSENT == [type |-> "absent"]

\* what storeKey / storeCertificate write: the text and the POSIX end of line
File(text) == [type |-> "file", text |-> text, end |-> EOL]

\* what pfs.writeFile leaves behind when it fails after truncating the file
TRUNCATED == [type |-> "file", text |-> toString(UNDEFINED), end |-> ""]

doesExist(file) == file # ABSENT

Readable(file) == file # ABSENT /\ file # TRUNCATED

(***************************************************************************)
(* privateAPI of the SSM.  Each function maps the module state s and the   *)
(* inputs of the call (the outcome of its file operations included) to the *)
(* state it leaves and its completion.                                     *)
(***************************************************************************)
\* the outcomes of the stat and read calls of initializeAPI
LoadOutcomes == {"ok", "keyError", "certificateError"}

\* the outcomes of storeKey followed by storeCertificate
StoreOutcomes == {"ok", "keyUnwritten", "keyTruncated",
                  "certificateUnwritten", "certificateTruncated"}

\* the outcomes of the two unlink calls of forgetKey
UnlinkOutcomes == {"ok", "keyKept", "certificateKept", "bothKept"}

\* lines 202-212 without the assignment of certificateCitation (line 210)
LoadedKeyUncited(s) ==
    LET key == parse(s.keyFile.text)
        citation == getValue(key, "$certificate")
    IN  [s EXCEPT !.timestamp = getValue(key, "$timestamp"),
                  !.publicKey = getValue(key, "$publicKey"),
                  !.privateKey = getValue(key, "$privateKey"),
                  !.notaryTag = getValue(citation, "$tag"),
                  !.version = getValue(citation, "$version")]

\* lines 202-212: the key attributes read from NotaryKey.bali
LoadedKey(s) ==
    LET key == parse(s.keyFile.text)
        citation == getValue(key, "$certificate")
    IN  [s EXCEPT !.timestamp = getValue(key, "$timestamp"),
                  !.publicKey = getValue(key, "$publicKey"),
                  !.privateKey = getValue(key, "$privateKey"),
                  !.certificateCitation = citation,
                  !.notaryTag = getValue(citation, "$tag"),
                  !.version = getValue(citation, "$version")]

\* privateAPI.initializeAPI()
initialize(s, load) ==
    IF load = "keyError" \/ (doesExist(s.keyFile) /\ ~Readable(s.keyFile))
    THEN Outcome(s, Thrown("$unexpected"))
    ELSE LET s1 == IF doesExist(s.keyFile) THEN LoadedKey(s) ELSE s
         IN  IF \/ load = "certificateError"
                \/ doesExist(s.certificateFile) /\ ~Readable(s.certificateFile)
             THEN Outcome(s1, Thrown("$unexpected"))
             ELSE LET s2 == IF doesExist(s.certificateFile)
                            THEN [s1 EXCEPT !.notaryCertificate =
                                               parse(s.certificateFile.text)]
                            ELSE s1
                  IN  Outcome([s2 EXCEPT !.initializeAPI = FALSE], Returned(UNDEFINED))

\* a call that goes on without loading the files
InitializedNever(s, load) == Outcome(s, Returned(UNDEFINED))

\* if (this.initializeAPI) await this.initializeAPI();
Initialized(s, load) ==
    IF s.initializeAPI THEN initialize(s, load) ELSE Outcome(s, Returned(UNDEFINED))

\* privateAPI.getCertificate()
getCertificate(s, load) ==
    LET i == Initialized(s, load)
    IN  IF i.completion.thrown THEN i
        ELSE Outcome(i.state, Returned(i.state.notaryCertificate))

\* privateAPI.getCitation()
getCitation(s, load) ==
    LET i == Initialized(s, load)
    IN  IF i.completion.thrown THEN i
        ELSE Outcome(i.state, Returned(i.state.certificateCitation))

\* line 278 taking a new tag every time
NextTagFresh(s, tag) == Tag(tag)

\* line 278: notaryTag = notaryTag || bali.tag()
NextTag(s, tag) == IF s.notaryTag # UNDEFINED THEN s.notaryTag ELSE Tag(tag)

\* line 279 without the increment
NextVersionSame(s) ==
    IF s.version # UNDEFINED THEN s.version ELSE InitialVersion

\* line 279: version = version ? bali.version.nextVersion(version) : bali.version()
NextVersion(s) ==
    IF s.version # UNDEFINED THEN nextVersion(s.version) ELSE InitialVersion

\* line 282 signing with the new key also when an old key exists
SigningKeyNew(s, pair) == pair.privateKey

\* line 282: privateKey = privateKey || keys.privateKey, the key that signs
SigningKey(s, pair) ==
    IF s.privateKey # UNDEFINED THEN s.privateKey ELSE pair.privateKey

\* line 311 keeping the existing key
SavedKeyOld(s, pair) ==
    IF s.privateKey # UNDEFINED THEN s.privateKey ELSE pair.privateKey

\* line 311: privateKey = keys.privateKey, the key that is kept
SavedKey(s, pair) == pair.privateKey

\* lines 285-296 citing the cached citation also when there is no key to replace
CertificateComponentChained(s, pair, tag, t) ==
    Catalog(<< Association("$protocol", parse(PROTOCOL)),
               Association("$timestamp", Moment(t)),
               Association("$accountId", accountId),
               Association("$publicKey", pair.publicKey) >>,
            << Association("$type", parse(CertificateType)),
               Association("$tag", NextTag(s, tag)),
               Association("$version", NextVersion(s)),
               Association("$permissions", parse(PublicPermissions)),
               Association("$previous", s.certificateCitation) >>)

\* lines 285-296 without the chain to the replaced certificate
CertificateComponentUnchained(s, pair, tag, t) ==
    Catalog(<< Association("$protocol", parse(PROTOCOL)),
               Association("$timestamp", Moment(t)),
               Association("$accountId", accountId),
               Association("$publicKey", pair.publicKey) >>,
            << Association("$type", parse(CertificateType)),
               Association("$tag", NextTag(s, tag)),
               Association("$version", NextVersion(s)),
               Association("$permissions", parse(PublicPermissions)),
               Association("$previous", NONE) >>)

\* lines 285-296: the certificate component
CertificateComponent(s, pair, tag, t) ==
    Catalog(<< Association("$protocol", parse(PROTOCOL)),
               Association("$timestamp", Moment(t)),
               Association("$accountId", accountId),
               Association("$publicKey", pair.publicKey) >>,
            << Association("$type", parse(CertificateType)),
               Association("$tag", NextTag(s, tag)),
               Association("$version", NextVersion(s)),
               Association("$permissions", parse(PublicPermissions)),
               Association("$previous",
                   IF s.privateKey # UNDEFINED THEN s.certificateCitation ELSE NONE) >>)

\* lines 307-308 and 405-406: the document with the signature of its text added
Sealed(document, key) ==
    setValue(document, "$signature", signMessage(toString(document), key))

\* lines 299-308: the notarized certificate document
CertificateDocument(s, pair, tag, t) ==
    Sealed(Catalog(<< Association("$component", CertificateComponent(s, pair, tag, t)),
                      Association("$protocol", parse(PROTOCOL)),
                      Association("$timestamp", Moment(t)),
                      Association("$certificate",
                          IF s.privateKey # UNDEFINED THEN s.certificateCitation ELSE NONE) >>,
                   << Association("$type", parse(DocumentType)) >>),
           SigningKey(s, pair))

\* lines 314-323 with the digest of the certificate component instead of the
\* digest of the notarized certificate document
CertificateCitationOfComponent(s, certificate, tag, t) ==
    Catalog(<< Association("$protocol", parse(PROTOCOL)),
               Association("$timestamp", Moment(t)),
               Association("$tag", NextTag(s, tag)),
               Association("$version", NextVersion(s)),
               Association("$digest",
                   digestMessage(toString(getValue(certificate, "$component")))) >>,
            << Association("$type", parse(CitationType)) >>)

\* lines 314-323: the citation to the new certificate
CertificateCitation(s, certificate, tag, t) ==
    Catalog(<< Association("$protocol", parse(PROTOCOL)),
               Association("$timestamp", Moment(t)),
               Association("$tag", NextTag(s, tag)),
               Association("$version", NextVersion(s)),
               Association("$digest", digestMessage(toString(certificate))) >>,
            << Association("$type", parse(CitationType)) >>)

\* lines 327-336: the record stored in NotaryKey.bali
NotaryKey(s) ==
    Catalog(<< Association("$protocol", parse(PROTOCOL)),
               Association("$timestamp", s.timestamp),
               Association("$accountId", accountId),
               Association("$publicKey", s.publicKey),
               Association("$privateKey", s.privateKey),
               Association("$certificate", s.certificateCitation) >>,
            << Association("$type", parse(NotaryKeyType)) >>)

\* lines 337-338: storeKey, then storeCertificate
Stored(s, store) ==
    [s EXCEPT !.keyFile =
                  CASE store = "keyUnwritten" -> s.keyFile
                    [] store = "keyTruncated" -> TRUNCATED
                    [] OTHER -> File(toString(NotaryKey(s))),
              !.certificateFile =
                  CASE store \in {"keyUnwritten", "keyTruncated", "certificateUnwritten"}
                           -> s.certificateFile
                    [] store = "certificateTruncated" -> TRUNCATED
                    [] OTHER -> File(toString(s.notaryCertificate))]

\* lines 314-323: the state with the citation of its certificate
Cited(s, s0, tag, t) ==
    [s EXCEPT !.certificateCitation = CertificateCitation(s0, s.notaryCertificate, tag, t)]

\* lines 276-323: the closure variables after generateKey has made the key pair,
\* the certificate and the citation, from the state s0 it found
Regenerated(s0, pair, tag, t) ==
    Cited([s0 EXCEPT !.notaryTag = NextTag(s0, tag),
                     !.version = NextVersion(s0),
                     !.timestamp = Moment(t),
                     !.publicKey = pair.publicKey,
                     !.privateKey = SavedKey(s0, pair),
                     !.notaryCertificate = CertificateDocument(s0, pair, tag, t)],
          s0, tag, t)

\* lines 325-350: the files are written, and the certificate is returned unless a
\* write failed
Persisted(s1, store) ==
    IF store # "ok"
    THEN Outcome(Stored(s1, store), Thrown("$directoryAccess"))
    ELSE Outcome(Stored(s1, store), Returned(s1.notaryCertificate))

\* lines 274-350: generateKey once the API is initialized
generateKeyBody(i, store, k, tag, t) ==
    IF i.completion.thrown THEN i
    ELSE Persisted(Regenerated(i.state, generateKeys(k), tag, t), store)

\* privateAPI.generateKey() with the fresh key pair k, the fresh tag and the clock t
generateKey(s, load, store, k, tag, t) ==
    generateKeyBody(Initialized(s, load), store, k, tag, t)

\* lines 364-365: deleteKey, then deleteCertificate; a failed unlink is ignored
Deleted(s, unlink) ==
    [s EXCEPT !.keyFile =
                  IF unlink \in {"keyKept", "bothKept"} THEN s.keyFile ELSE ABSENT,
              !.certificateFile =
                  IF unlink \in {"certificateKept", "bothKept"}
                  THEN s.certificateFile ELSE ABSENT]

\* forgetKey leaving the certificate in memory (line 363 missing)
forgetKeyKeepsCertificate(s, load, unlink) ==
    LET i == Initialized(s, load)
        s1 == [i.state EXCEPT !.version = UNDEFINED,
                              !.publicKey = UNDEFINED,
                              !.privateKey = UNDEFINED,
                              !.certificateCitation = UNDEFINED]
    IN  IF i.completion.thrown THEN i
        ELSE Outcome(Deleted(s1, unlink), Returned(UNDEFINED))

\* privateAPI.forgetKey()
forgetKey(s, load, unlink) ==
    LET i == Initialized(s, load)
        s1 == [i.state EXCEPT !.version = UNDEFINED,
                              !.publicKey = UNDEFINED,
                              !.privateKey = UNDEFINED,
                              !.certificateCitation = UNDEFINED,
                              !.notaryCertificate = UNDEFINED]
    IN  IF i.completion.thrown THEN i
        ELSE Outcome(Deleted(s1, unlink), Returned(UNDEFINED))

\* lines 397-407: the notarized component
Notarized(s, component, t) ==
    Sealed(Catalog(<< Association("$component", component),
                      Association("$protocol", parse(PROTOCOL)),
                      Association("$timestamp", Moment(t)),
                      Association("$certificate", s.certificateCitation) >>,
                   << Association("$type", parse(DocumentType)) >>),
           s.privateKey)

\* signComponent recording the time of the signature in the closure variable timestamp
signComponentStamping(s, load, component, t) ==
    LET i == Initialized(s, load)
        stamped == [i.state EXCEPT !.timestamp = Moment(t)]
    IN  IF i.completion.thrown THEN i
        ELSE IF i.state.privateKey = UNDEFINED
             THEN Outcome(i.state, Thrown("$missingKey"))
             ELSE Outcome(stamped, Returned(Notarized(i.state, component, t)))

\* privateAPI.signComponent(component)
signComponent(s, load, component, t) ==
    LET i == Initialized(s, load)
    IN  IF i.completion.thrown THEN i
        ELSE IF i.state.privateKey = UNDEFINED
             THEN Outcome(i.state, Thrown("$missingKey"))
             ELSE Outcome(i.state, Returned(Notarized(i.state, component, t)))

\* decryptComponent returning the decrypted text without parsing it
decryptComponentUnparsed(s, load, aem) ==
    LET i == Initialized(s, load)
        protocol == getValue(aem, "$protocol")
        decrypted == decryptMessage(aem, i.state.privateKey)
    IN  IF i.completion.thrown THEN i
        ELSE IF i.state.privateKey = UNDEFINED
             THEN Outcome(i.state, Thrown("$missingKey"))
             ELSE IF protocol = UNDEFINED \/ toString(protocol) # PROTOCOL
                  THEN Outcome(i.state, Thrown("$unsupportedProtocol"))
                  ELSE IF decrypted.thrown
                       THEN Outcome(i.state, Thrown("Error"))
                       ELSE Outcome(i.state, Returned(decrypted.message))

\* decryptComponent testing the protocol only after the message is decrypted
decryptComponentDecryptFirst(s, load, aem) ==
    LET i == Initialized(s, load)
        protocol == getValue(aem, "$protocol")
        decrypted == decryptMessage(aem, i.state.privateKey)
    IN  IF i.completion.thrown THEN i
        ELSE IF i.state.privateKey = UNDEFINED
             THEN Outcome(i.state, Thrown("$missingKey"))
             ELSE IF decrypted.thrown
                  THEN Outcome(i.state, Thrown("Error"))
                  ELSE IF protocol = UNDEFINED \/ toString(protocol) # PROTOCOL
                       THEN Outcome(i.state, Thrown("$unsupportedProtocol"))
                       ELSE Outcome(i.state, Returned(parse(decrypted.message)))

\* privateAPI.decryptComponent(aem)
decryptComponent(s, load, aem) ==
    LET i == Initialized(s, load)
        protocol == getValue(aem, "$protocol")
        decrypted == decryptMessage(aem, i.state.privateKey)
    IN  IF i.completion.thrown THEN i
        ELSE IF i.state.privateKey = UNDEFINED
             THEN Outcome(i.state, Thrown("$missingKey"))
             ELSE IF protocol = UNDEFINED \/ toString(protocol) # PROTOCOL
                  THEN Outcome(i.state, Thrown("$unsupportedProtocol"))
                  ELSE IF decrypted.thrown
                       THEN Outcome(i.state, Thrown("Error"))
                       ELSE Outcome(i.state, Returned(parse(decrypted.message)))

(***************************************************************************)
(* The notary wrapper (exports.api, SSM.js lines 926-1250).                *)
(***************************************************************************)
\* the exceptions built by bali.exception(); anything else is a native error
BaliExceptions == {"$unexpected", "$directoryAccess", "$missingKey",
                   "$unsupportedProtocol", "$invalidParameter"}

\* the catch clause of every wrapper function: an Exception passes, any other
\* error is wrapped into an $unexpected exception
Caught(completion) ==
    IF completion.thrown /\ completion.exception \notin BaliExceptions
    THEN Thrown("$unexpected")
    ELSE completion

NamesWithPrefix(prefix) ==
    {Name(n) : n \in {prefix \o "1", prefix \o "2"}}

ValidPrimitive(type, value) == value # UNDEFINED /\ value.type = type

ValidComponent(value) == value # UNDEFINED

ValidCitation(value) ==
    \/ value = NONE
    \/ /\ value # UNDEFINED
       /\ isCatalog(value)
       /\ getSize(value) = 5
       /\ ValidPrimitive("version", getValue(value, "$protocol"))
       /\ ValidPrimitive("moment", getValue(value, "$timestamp"))
       /\ ValidPrimitive("tag", getValue(value, "$tag"))
       /\ ValidPrimitive("version", getValue(value, "$version"))
       /\ ValidPrimitive("binary", getValue(value, "$digest"))
       /\ Len(value.parameters) = 1
       /\ getParameter(value, "$type") \in NamesWithPrefix("/bali/notary/Citation/v")

ValidCertificate(value) ==
    /\ value # UNDEFINED
    /\ isCatalog(value)
    /\ getSize(value) = 4
    /\ ValidPrimitive("version", getValue(value, "$protocol"))
    /\ ValidPrimitive("moment", getValue(value, "$timestamp"))
    /\ ValidPrimitive("tag", getValue(value, "$accountId"))
    /\ ValidPrimitive("binary", getValue(value, "$publicKey"))
    /\ Len(value.parameters) = 5
    /\ ValidPrimitive("tag", getParameter(value, "$tag"))
    /\ ValidPrimitive("version", getParameter(value, "$version"))
    /\ ValidCitation(getParameter(value, "$previous"))
    /\ getParameter(value, "$type") \in NamesWithPrefix("/bali/notary/Certificate/v")
    /\ getParameter(value, "$permissions") \in NamesWithPrefix("/bali/permissions/public/v")

ValidAEM(value) ==
    /\ value # UNDEFINED
    /\ isCatalog(value)
    /\ getSize(value) = 6
    /\ ValidPrimitive("version", getValue(value, "$protocol"))
    /\ ValidPrimitive("moment", getValue(value, "$timestamp"))
    /\ ValidPrimitive("binary", getValue(value, "$seed"))
    /\ ValidPrimitive("binary", getValue(value, "$iv"))
    /\ ValidPrimitive("binary", getValue(value, "$auth"))
    /\ ValidPrimitive("binary", getValue(value, "$ciphertext"))
    /\ Len(value.parameters) = 1
    /\ getParameter(value, "$type") \in NamesWithPrefix("/bali/notary/AEM/v")

ValidDocument(value) ==
    /\ value # UNDEFINED
    /\ isCatalog(value)
    /\ getSize(value) = 5
    /\ ValidComponent(getValue(value, "$component"))
    /\ ValidPrimitive("version", getValue(value, "$protocol"))
    /\ ValidPrimitive("moment", getValue(value, "$timestamp"))
    /\ ValidCitation(getValue(value, "$certificate"))
    /\ ValidPrimitive("binary", getValue(value, "$signature"))
    /\ LET component == getValue(value, "$component")
       IN  /\ isCatalog(component)
           /\ component.parameters # << >>
           /\ HasKey(component.parameters, "$type")
                 => ValidPrimitive("name", getParameter(component, "$type"))
           /\ ValidPrimitive("tag", getParameter(component, "$tag"))
           /\ ValidPrimitive("version", getParameter(component, "$version"))
           /\ ValidPrimitive("name", getParameter(component, "$permissions"))
           /\ ValidCitation(getParameter(component, "$previous"))
    /\ Len(value.parameters) = 1
    /\ getParameter(value, "$type") \in NamesWithPrefix("/bali/notary/Document/v")

\* validateParameter(functionName, parameterName, parameterValue, type)
validateParameter(type, value) ==
    CASE type \in {"binary", "moment", "name", "tag", "version"}
             -> ValidPrimitive(type, value)
      [] type = "component" -> ValidComponent(value)
      [] type = "citation" -> ValidCitation(value)
      [] type = "certificate" -> ValidCertificate(value)
      [] type = "aem" -> ValidAEM(value)
      [] type = "document" -> ValidDocument(value)
      [] OTHER -> FALSE

\* the protocol registry (lines 735-740): the versions with an implementation
protocols == {PROTOCOL}

\* getPublicAPI(functionName, document): document.getValue fails with a TypeError
\* when the document is an element such as none, and protocols[protocol.toString()].SSM
\* fails with a TypeError when the protocol is not a key of the registry
getPublicAPI(document) ==
    IF ~isCatalog(document)
    THEN Thrown("TypeError")
    ELSE LET protocol == getValue(document, "$protocol")
         IN  IF toString(protocol) \in protocols
             THEN Returned(Text("v1"))
             ELSE Thrown("TypeError")

\* api.citeDocument(document)
apiCiteDocument(document, t) ==
    IF ~validateParameter("document", document)
    THEN Thrown("$invalidParameter")
    ELSE Caught(citeDocument(document, t))

\* api.citationMatches(citation, document)
apiCitationMatches(citation, document) ==
    IF ~validateParameter("citation", citation) \/ ~validateParameter("document", document)
    THEN Thrown("$invalidParameter")
    ELSE IF getPublicAPI(citation).thrown
         THEN Caught(getPublicAPI(citation))
         ELSE Returned(Boolean(citationMatches(citation, document)))

\* api.documentIsValid(document, certificate)
apiDocumentIsValid(document, certificate) ==
    IF \/ ~validateParameter("document", document)
       \/ ~validateParameter("document", certificate)
       \/ ~validateParameter("certificate", getValue(certificate, "$component"))
    THEN Thrown("$invalidParameter")
    ELSE IF getPublicAPI(certificate).thrown
         THEN Caught(getPublicAPI(certificate))
         ELSE Returned(Boolean(documentIsValid(document, certificate)))

\* api.encryptComponent(component, certificate)
apiEncryptComponent(component, certificate, e, nonce, t) ==
    IF \/ ~validateParameter("component", component)
       \/ ~validateParameter("document", certificate)
       \/ ~validateParameter("certificate", getValue(certificate, "$component"))
    THEN Thrown("$invalidParameter")
    ELSE IF getPublicAPI(certificate).thrown
         THEN Caught(getPublicAPI(certificate))
         ELSE Returned(encryptComponent(component, certificate, e, nonce, t))

\* the try/catch of a wrapper function around a call of the privateAPI
CaughtOutcome(o) == Outcome(o.state, Caught(o.completion))

\* api.signComponent(component)
apiSignComponent(s, load, component, t) ==
    IF ~validateParameter("component", component)
    THEN Outcome(s, Thrown("$invalidParameter"))
    ELSE CaughtOutcome(signComponent(s, load, component, t))

\* api.decryptComponent(aem)
apiDecryptComponent(s, load, aem) ==
    IF ~validateParameter("aem", aem)
    THEN Outcome(s, Thrown("$invalidParameter"))
    ELSE CaughtOutcome(decryptComponent(s, load, aem))

\* api.generateKey()
apiGenerateKey(s, load, store, k, tag, t) ==
    CaughtOutcome(generateKey(s, load, store, k, tag, t))

\* api.forgetKey()
apiForgetKey(s, load, unlink) ==
    CaughtOutcome(forgetKey(s, load, unlink))

\* api.getCertificate()
apiGetCertificate(s, load) ==
    CaughtOutcome(getCertificate(s, load))

\* api.getCitation()
apiGetCitation(s, load) ==
    CaughtOutcome(getCitation(s, load))

(***************************************************************************)
(* What callers pass in.                                                   *)
(***************************************************************************)
\* the parameters every notarized component must carry (test component, line 27)
ComponentParameters ==
    << Association("$tag", Tag(-1)),
       Association("$version", Version(<< 1 >>)),
       Association("$permissions", parse(PublicPermissions)),
       Association("$previous", NONE) >>

\* [$foo: "bar"](...) and a second, distinct component
Parameterized == {Catalog(<< Association("$foo", Text(t)) >>, ComponentParameters) :
                     t \in {"bar", "baz"}}

\* [$foo: "bar"] without parameters
Bare == Catalog(<< Association("$foo", Text("bar")) >>, << >>)

Components == Parameterized \cup {Bare}

\* a notarized document prepared for a second notarization
\* ('should notarized a component twice properly')
Renotarizable(document) ==
    [document EXCEPT !.parameters = document.parameters \o
        << Association("$tag", getParameter(getValue(document, "$component"), "$tag")),
           Association("$version", Version(<< 2 >>)),
           Association("$permissions", parse(PublicPermissions)),
           Association("$previous", NONE) >>]

SignInputs ==
    Components \cup
    IF /\ result.op = "signComponent"
       /\ ~result.thrown
       /\ result.input \in Parameterized
    THEN {Renotarizable(result.value)}
    ELSE {}


Altered(binary) == [type |-> "binary", altered |-> binary]

Alterations == {"$ciphertext", "$iv", "$auth", "$protocol"}

Alter(aem, attribute) ==
    CASE attribute = "$protocol" -> setValue(aem, attribute, Version(<< 2 >>))
      [] OTHER -> setValue(aem, attribute, Altered(getValue(aem, attribute)))

\* the AEMs made by encryptComponent for a certificate, as made or altered in transit
AEMs(certificate, t) ==
    {encryptComponent(m, certificate, 0, 0, t) : m \in Parameterized} \cup
    {Alter(encryptComponent(Bare, certificate, 0, 0, t), a) : a \in Alterations}

\* the AEMs a caller may hold: those for the current certificate, and one made
\* for the certificate that the latest rotation replaced
DecryptInputs ==
    (IF notaryCertificate # UNDEFINED THEN AEMs(notaryCertificate, now) ELSE {}) \cup
    (IF oldCertificate # UNDEFINED
     THEN {encryptComponent(Bare, oldCertificate, 0, 0, now)} ELSE {})

\* a failed file operation counts as a fault
Fault(outcome) == IF outcome = "ok" THEN 0 ELSE 1

Call(op, input, active, completion) ==
    [op |-> op, input |-> input, active |-> active,
     thrown |-> completion.thrown, exception |-> completion.exception,
     value |-> completion.value]

(***************************************************************************)
(* The state machine.                                                      *)
(***************************************************************************)
Init ==
    /\ notaryTag = UNDEFINED
    /\ version = UNDEFINED
    /\ timestamp = UNDEFINED
    /\ publicKey = UNDEFINED
    /\ privateKey = UNDEFINED
    /\ notaryCertificate = UNDEFINED
    /\ certificateCitation = UNDEFINED
    /\ initializeAPI = TRUE
    /\ keyFile = ABSENT
    /\ certificateFile = ABSENT
    /\ now = 0
    /\ keys = 0
    /\ tags = 0
    /\ result = Call("none", UNDEFINED, FALSE, Returned(UNDEFINED))
    /\ faults = 0
    /\ oldCertificate = UNDEFINED
    /\ forgotten = FALSE
    /\ unawaited = [calls |-> << >>, files |-> << ABSENT, ABSENT >>]

\* a call reads the files only while the API is not initialized
Loads == IF initializeAPI /\ faults < MaxFaults THEN LoadOutcomes ELSE {"ok"}

Stores == IF faults < MaxFaults THEN StoreOutcomes ELSE {"ok"}

Unlinks == IF faults < MaxFaults THEN UnlinkOutcomes ELSE {"ok"}

\* whether the body of a call finds a private key, once the API is initialized
Active(s, load) == Initialized(s, load).state.privateKey # UNDEFINED

\* an explicit call of privateAPI.initializeAPI(); line 229 replaces the function by
\* undefined once it has succeeded, so a later call is a call of undefined
callInitializeAPI(s, load) ==
    IF s.initializeAPI THEN initialize(s, load) ELSE Outcome(s, Thrown("TypeError"))

InitializeAPI ==
    /\ \E load \in Loads :
          LET o == callInitializeAPI(Current, load)
          IN  /\ Install(o.state)
              /\ result' = Call("initializeAPI", UNDEFINED, FALSE, o.completion)
              /\ faults' = faults + Fault(load)
    /\ UNCHANGED << now, keys, tags, oldCertificate, forgotten, unawaited >>

GetCertificate ==
    /\ \E load \in Loads :
          LET o == apiGetCertificate(Current, load)
          IN  /\ Install(o.state)
              /\ result' = Call("getCertificate", UNDEFINED, Active(Current, load),
                                o.completion)
              /\ faults' = faults + Fault(load)
    /\ UNCHANGED << now, keys, tags, oldCertificate, forgotten, unawaited >>

GetCitation ==
    /\ \E load \in Loads :
          LET o == apiGetCitation(Current, load)
          IN  /\ Install(o.state)
              /\ result' = Call("getCitation", UNDEFINED, Active(Current, load),
                                o.completion)
              /\ faults' = faults + Fault(load)
    /\ UNCHANGED << now, keys, tags, oldCertificate, forgotten, unawaited >>

GenerateKey ==
    /\ keys < MaxKeys
    /\ \E load \in Loads, store \in Stores :
          LET i == Initialized(Current, load)
              o == apiGenerateKey(Current, load, store, keys + 1, tags + 1, now)
          IN  /\ Install(o.state)
              /\ result' = Call("generateKey", UNDEFINED, Active(Current, load),
                                o.completion)
              /\ faults' = IF i.completion.thrown THEN faults + Fault(load)
                           ELSE faults + Fault(store)
              /\ keys' = IF i.completion.thrown THEN keys ELSE keys + 1
              /\ tags' = IF i.completion.thrown \/ i.state.notaryTag # UNDEFINED
                         THEN tags ELSE tags + 1
              /\ oldCertificate' =
                     IF ~i.completion.thrown /\ i.state.privateKey # UNDEFINED
                     THEN i.state.notaryCertificate
                     ELSE oldCertificate
              /\ forgotten' = (forgotten /\ o.completion.thrown)
    /\ UNCHANGED << now, unawaited >>

ForgetKey ==
    /\ \E load \in Loads, unlink \in Unlinks :
          LET o == apiForgetKey(Current, load, unlink)
          IN  /\ Install(o.state)
              /\ result' = Call("forgetKey", UNDEFINED, Active(Current, load),
                                o.completion)
              /\ faults' = IF o.completion.thrown THEN faults + Fault(load)
                           ELSE faults + Fault(unlink)
              /\ forgotten' = (forgotten \/ ~o.completion.thrown)
    /\ UNCHANGED << now, keys, tags, oldCertificate, unawaited >>

SignComponent ==
    /\ \E load \in Loads, component \in SignInputs :
          LET o == apiSignComponent(Current, load, component, now)
          IN  /\ Install(o.state)
              /\ result' = Call("signComponent", component, Active(Current, load),
                                o.completion)
              /\ faults' = faults + Fault(load)
    /\ UNCHANGED << now, keys, tags, oldCertificate, forgotten, unawaited >>

DecryptComponent ==
    /\ \E load \in Loads, aem \in DecryptInputs :
          LET o == apiDecryptComponent(Current, load, aem)
          IN  /\ Install(o.state)
              /\ result' = Call("decryptComponent", aem, Active(Current, load),
                                o.completion)
              /\ faults' = faults + Fault(load)
    /\ UNCHANGED << now, keys, tags, oldCertificate, forgotten, unawaited >>

\* time passes
Tick ==
    /\ now < MaxClock
    /\ now' = now + 1
    /\ UNCHANGED << memory, files, keys, tags, result, faults, oldCertificate, forgotten,
                    unawaited >>

Next ==
    \/ InitializeAPI
    \/ GetCertificate
    \/ GetCitation
    \/ GenerateKey
    \/ ForgetKey
    \/ SignComponent
    \/ DecryptComponent
    \/ Tick

Spec == Init /\ [][Next]_vars

(***************************************************************************)
(* The rotation call of the notary API.  test/TestDigitalNotary.js line 117 *)
(* calls notaryAPI.rotateKey(), whose code is not among the sources: it is  *)
(* taken from the interface table of the specification (rotateKey fails     *)
(* with UninitializedKey, otherwise rotates) over the generateKey above.    *)
(***************************************************************************)
\* rotateKey without the test for a key
rotateKeyUnguarded(s, load, store, k, tag, t) ==
    apiGenerateKey(s, load, store, k, tag, t)

rotateKey(s, load, store, k, tag, t) ==
    IF ~Initialized(s, load).completion.thrown /\ ~Active(s, load)
    THEN Outcome(Initialized(s, load).state, Thrown("$missingKey"))
    ELSE apiGenerateKey(s, load, store, k, tag, t)

RotateKey ==
    /\ keys < MaxKeys
    /\ \E load \in Loads, store \in Stores :
          LET o == rotateKey(Current, load, store, keys + 1, tags + 1, now)
              rotates == Active(Current, load)
          IN  /\ Install(o.state)
              /\ result' = Call("rotateKey", UNDEFINED, rotates, o.completion)
              /\ faults' = IF rotates THEN faults + Fault(store)
                           ELSE faults + Fault(load)
              /\ keys' = IF rotates THEN keys + 1 ELSE keys
              /\ oldCertificate' = IF rotates THEN notaryCertificate ELSE oldCertificate
              /\ forgotten' = (forgotten /\ o.completion.thrown)
    /\ UNCHANGED << now, tags, unawaited >>

NextNotary ==
    \/ InitializeAPI
    \/ GetCertificate
    \/ GetCitation
    \/ GenerateKey
    \/ RotateKey
    \/ ForgetKey
    \/ SignComponent
    \/ DecryptComponent
    \/ Tick

SpecNotary == Init /\ [][NextNotary]_vars

(***************************************************************************)
(* A second instance of the SSM on the same configuration directory        *)
(* (exports.privateAPI called again, as the test 'should read in the new   *)
(* keys' does): the closure variables start undefined, the files stay.     *)
(***************************************************************************)
\* the closure variables of a new instance (lines 154-163) over the files of s
privateAPI(s) ==
    [s EXCEPT !.notaryTag = UNDEFINED,
              !.version = UNDEFINED,
              !.timestamp = UNDEFINED,
              !.publicKey = UNDEFINED,
              !.privateKey = UNDEFINED,
              !.notaryCertificate = UNDEFINED,
              !.certificateCitation = UNDEFINED,
              !.initializeAPI = TRUE]

\* what the instance that is left behind reported last, and what it held
Left ==
    [op |-> result.op, thrown |-> result.thrown,
     certificate |-> notaryCertificate, citation |-> certificateCitation]

Restart ==
    /\ ~initializeAPI
    /\ Install(privateAPI(Current))
    /\ result' = Call("privateAPI", Left, privateKey # UNDEFINED, Returned(UNDEFINED))
    /\ oldCertificate' = UNDEFINED
    /\ forgotten' = FALSE
    /\ UNCHANGED << now, keys, tags, faults, unawaited >>

\* decryptComponent leaves the closure variables and the files as any other call
\* that only reads them does, and is left to Next
NextRestart ==
    \/ InitializeAPI
    \/ GetCertificate
    \/ GetCitation
    \/ GenerateKey
    \/ ForgetKey
    \/ SignComponent
    \/ Tick
    \/ Restart

SpecRestart == Init /\ [][NextRestart]_vars

(***************************************************************************)
(* Calls that the caller does not await.  An async function runs up to its *)
(* first await when it is called: on an initialized SSM signComponent,     *)
(* decryptComponent, getCertificate and getCitation have no await and end  *)
(* at once, while generateKey assigns all closure variables and then       *)
(* awaits storeKey and storeCertificate (lines 337-338), and forgetKey     *)
(* clears them and then awaits deleteKey and deleteCertificate (lines      *)
(* 364-365).  Nothing orders the file operations of two calls in flight.   *)
(***************************************************************************)
\* how many calls may be in flight at once
MaxUnawaited == 2

\* lines 337-338: the writes that generateKey still has to do
StoreSteps(s) ==
    << [file |-> "key", content |-> File(toString(NotaryKey(s)))],
       [file |-> "certificate", content |-> File(toString(s.notaryCertificate))] >>

\* lines 364-365: the unlinks that forgetKey still has to do
DeleteSteps ==
    << [file |-> "key", content |-> ABSENT],
       [file |-> "certificate", content |-> ABSENT] >>

\* a call in flight: the file operations it has left, and the value that it
\* returns when the calls are executed one at a time in the order of invocation
InFlight(op, todo, returns) == [op |-> op, todo |-> todo, returns |-> returns]

\* the call is added to the calls in flight; executed one at a time, the calls
\* invoked so far leave the files that the last of them leaves
Invoked(call) ==
    [calls |-> Append(unawaited.calls, call),
     files |-> << call.todo[1].content, call.todo[2].content >>]

\* lines 274-323, up to the await of line 337, on the closure variables s1 that
\* they leave
InvokedGenerateKey(s1) ==
    /\ Install(s1)
    /\ unawaited' = Invoked(InFlight("generateKey", StoreSteps(s1), s1.notaryCertificate))

InvokeGenerateKey ==
    /\ ~initializeAPI
    /\ keys < MaxKeys
    /\ Len(unawaited.calls) < MaxUnawaited
    /\ InvokedGenerateKey(Regenerated(Current, generateKeys(keys + 1), tags + 1, now))
    /\ keys' = keys + 1
    /\ tags' = IF notaryTag # UNDEFINED THEN tags ELSE tags + 1
    /\ oldCertificate' = IF privateKey # UNDEFINED THEN notaryCertificate
                         ELSE oldCertificate
    /\ UNCHANGED << now, result, faults, forgotten >>

\* lines 358-363, up to the await of line 364
InvokeForgetKey ==
    /\ ~initializeAPI
    /\ Len(unawaited.calls) < MaxUnawaited
    /\ Install([Current EXCEPT !.version = UNDEFINED,
                               !.publicKey = UNDEFINED,
                               !.privateKey = UNDEFINED,
                               !.certificateCitation = UNDEFINED,
                               !.notaryCertificate = UNDEFINED])
    /\ unawaited' = Invoked(InFlight("forgetKey", DeleteSteps, UNDEFINED))
    /\ UNCHANGED << now, keys, tags, result, faults, oldCertificate, forgotten >>

\* the calls in flight without the call number i
Without(calls, i) == [j \in 1..(Len(calls) - 1) |-> IF j < i THEN calls[j] ELSE calls[j + 1]]

\* whether the call in flight number i ends with this file operation: the last
\* one, or the storeKey of a generateKey that finds no certificate to store
\* (line 338, notaryCertificate.toString() on undefined)
Ends(i, file) ==
    \/ file = "certificate"
    \/ unawaited.calls[i].op = "generateKey" /\ notaryCertificate = UNDEFINED

\* the file operations that the call number i has left after its next one; line 338
\* takes the text of the certificate from the closure variable when storeKey is done
Rest(i) ==
    IF unawaited.calls[i].op = "generateKey"
    THEN << [file |-> "certificate", content |-> File(toString(notaryCertificate))] >>
    ELSE Tail(unawaited.calls[i].todo)

\* the next file operation of the call in flight number i is done; after its last
\* one the call returns (line 350 returns the closure variable notaryCertificate
\* as it is by then, forgetKey returns undefined)
FileStep(i, op, file) ==
    /\ unawaited.calls[i].op = op
    /\ Head(unawaited.calls[i].todo).file = file
    /\ keyFile' = IF file = "key" THEN Head(unawaited.calls[i].todo).content ELSE keyFile
    /\ certificateFile' = IF file = "certificate"
                          THEN Head(unawaited.calls[i].todo).content
                          ELSE certificateFile
    /\ unawaited' =
           [unawaited EXCEPT !.calls =
               IF Ends(i, file)
               THEN Without(unawaited.calls, i)
               ELSE [unawaited.calls EXCEPT ![i].todo = Rest(i)]]
    /\ result' =
           IF Ends(i, file)
           THEN Call(op, unawaited.calls[i].returns, FALSE,
                     IF op = "forgetKey" THEN Returned(UNDEFINED)
                     ELSE IF file = "key" THEN Thrown("$directoryAccess")
                     ELSE Returned(notaryCertificate))
           ELSE result
    /\ UNCHANGED << memory, now, keys, tags, faults, oldCertificate, forgotten >>

StoreKey == \E i \in DOMAIN unawaited.calls : FileStep(i, "generateKey", "key")

StoreCertificate == \E i \in DOMAIN unawaited.calls : FileStep(i, "generateKey", "certificate")

DeleteKey == \E i \in DOMAIN unawaited.calls : FileStep(i, "forgetKey", "key")

DeleteCertificate == \E i \in DOMAIN unawaited.calls : FileStep(i, "forgetKey", "certificate")

NextUnawaited ==
    \/ InitializeAPI
    \/ InvokeGenerateKey
    \/ InvokeForgetKey
    \/ StoreKey
    \/ StoreCertificate
    \/ DeleteKey
    \/ DeleteCertificate
    \/ Tick

SpecUnawaited == Init /\ [][NextUnawaited]_vars

(***************************************************************************)
(* Calls on an instance that is not yet initialized.  Each call made while *)
(* this.initializeAPI is still set starts its own initializeAPI (the first *)
(* line of every function), which reads the key file, then the certificate *)
(* file, and assigns the closure variables as it goes; the body of the     *)
(* call runs when its own initializeAPI has returned.                      *)
(***************************************************************************)
\* the closure variables and files of a new instance over an empty directory
Blank ==
    [notaryTag |-> UNDEFINED, version |-> UNDEFINED, timestamp |-> UNDEFINED,
     publicKey |-> UNDEFINED, privateKey |-> UNDEFINED,
     notaryCertificate |-> UNDEFINED, certificateCitation |-> UNDEFINED,
     initializeAPI |-> TRUE, keyFile |-> ABSENT, certificateFile |-> ABSENT]

\* a new instance over the directory in which an earlier instance generated a key
Inherited ==
    [Blank EXCEPT
        !.keyFile = apiGenerateKey(Blank, "ok", "ok", 1, 1, 0).state.keyFile,
        !.certificateFile = apiGenerateKey(Blank, "ok", "ok", 1, 1, 0).state.certificateFile]

\* the key, certificate and citation of a module state
Installed(s) ==
    [privateKey |-> s.privateKey, notaryCertificate |-> s.notaryCertificate,
     certificateCitation |-> s.certificateCitation]

\* A new instance over an empty directory or over an inherited one.  unawaited.loads
\* counts the reads of the key file, unawaited.installed is what the last
\* generateKey assigned.
InitFresh ==
    /\ \E s \in {Blank, Inherited} :
          /\ notaryTag = s.notaryTag
          /\ version = s.version
          /\ timestamp = s.timestamp
          /\ publicKey = s.publicKey
          /\ privateKey = s.privateKey
          /\ notaryCertificate = s.notaryCertificate
          /\ certificateCitation = s.certificateCitation
          /\ initializeAPI = s.initializeAPI
          /\ keyFile = s.keyFile
          /\ certificateFile = s.certificateFile
          /\ keys = IF s = Blank THEN 0 ELSE 1
          /\ tags = IF s = Blank THEN 0 ELSE 1
          /\ unawaited = [calls |-> << >>, files |-> << s.keyFile, s.certificateFile >>,
                          loads |-> 0, installed |-> Installed(Blank)]
    /\ now = 0
    /\ result = Call("none", UNDEFINED, FALSE, Returned(UNDEFINED))
    /\ faults = 0
    /\ oldCertificate = UNDEFINED
    /\ forgotten = FALSE

\* lines 200-216: the reads that initializeAPI still has to do
LoadSteps ==
    << [file |-> "loadKey", content |-> ABSENT],
       [file |-> "loadCertificate", content |-> ABSENT] >>

\* the generateKey calls in flight whose body has not run yet
Loading(op) ==
    {i \in DOMAIN unawaited.calls :
        unawaited.calls[i].op = op /\ Head(unawaited.calls[i].todo).file = "loadKey"}
    \cup
    {i \in DOMAIN unawaited.calls :
        unawaited.calls[i].op = op
            /\ Head(unawaited.calls[i].todo).file = "loadCertificate"}

\* a call made while this.initializeAPI is set: it runs up to the first await of
\* its own initializeAPI
InvokeUninitialized(op) ==
    /\ initializeAPI
    /\ Len(unawaited.calls) < MaxUnawaited
    /\ unawaited' = [unawaited EXCEPT !.calls = Append(@, InFlight(op, LoadSteps, UNDEFINED))]
    /\ UNCHANGED << memory, files, now, keys, tags, result, faults, oldCertificate,
                    forgotten >>

InvokeUninitializedGenerateKey ==
    /\ keys + Cardinality(Loading("generateKey")) < MaxKeys
    /\ InvokeUninitialized("generateKey")

InvokeUninitializedGetCertificate ==
    /\ initializeAPI
    /\ InvokeUninitialized("getCertificate")

\* lines 202-212 of the initializeAPI of a call in flight
LoadKey ==
    \E i \in DOMAIN unawaited.calls :
        /\ Head(unawaited.calls[i].todo).file = "loadKey"
        /\ Install(IF doesExist(keyFile) THEN LoadedKey(Current) ELSE Current)
        /\ unawaited' =
               [unawaited EXCEPT !.calls[i].todo = Tail(@),
                                 !.loads = IF doesExist(keyFile) THEN @ + 1 ELSE @]
        /\ UNCHANGED << now, keys, tags, result, faults, oldCertificate, forgotten >>

\* lines 213-229: the closure variables when the initializeAPI of a call returns
LoadedCertificate(s) ==
    [s EXCEPT !.notaryCertificate = IF doesExist(s.certificateFile)
                                    THEN parse(s.certificateFile.text) ELSE @,
              !.initializeAPI = FALSE]

\* the initializeAPI of a getCertificate in flight returns, and the call with it
LoadCertificate ==
    \E i \in DOMAIN unawaited.calls :
        /\ unawaited.calls[i].op = "getCertificate"
        /\ Head(unawaited.calls[i].todo).file = "loadCertificate"
        /\ Install(LoadedCertificate(Current))
        /\ unawaited' = [unawaited EXCEPT !.calls = Without(@, i)]
        /\ result' = Call("getCertificate", UNDEFINED, privateKey # UNDEFINED,
                          Returned(LoadedCertificate(Current).notaryCertificate))
        /\ UNCHANGED << now, keys, tags, faults, oldCertificate, forgotten >>

\* the closure variables after the body of generateKey, lines 274-323, has run on s
Body(s) == Regenerated(s, generateKeys(keys + 1), tags + 1, now)

\* the initializeAPI of a generateKey in flight returns, and the body of
\* generateKey runs up to the await of line 337
LoadCertificateAndGenerateKey ==
    \E i \in DOMAIN unawaited.calls :
        /\ unawaited.calls[i].op = "generateKey"
        /\ Head(unawaited.calls[i].todo).file = "loadCertificate"
        /\ Install(Body(LoadedCertificate(Current)))
        /\ unawaited' =
               [unawaited EXCEPT
                   !.calls[i] = InFlight("generateKey",
                                         StoreSteps(Body(LoadedCertificate(Current))),
                                         Body(LoadedCertificate(Current)).notaryCertificate),
                   !.installed = Installed(Body(LoadedCertificate(Current)))]
        /\ keys' = keys + 1
        /\ tags' = IF notaryTag # UNDEFINED THEN tags ELSE tags + 1
        /\ oldCertificate' = IF privateKey # UNDEFINED
                             THEN LoadedCertificate(Current).notaryCertificate
                             ELSE oldCertificate
        /\ UNCHANGED << now, result, faults, forgotten >>

NextUninitialized ==
    \/ InvokeUninitializedGenerateKey
    \/ InvokeUninitializedGetCertificate
    \/ LoadKey
    \/ LoadCertificate
    \/ LoadCertificateAndGenerateKey
    \/ StoreKey
    \/ StoreCertificate
    \/ Tick

SpecUninitialized == InitFresh /\ [][NextUninitialized]_vars

(***************************************************************************)
(* The protocol registry of the notary module, with contents other than    *)
(* the one entry of the source.                                            *)
(***************************************************************************)
\* the highest one-digit protocol version that a registry may hold
MaxProtocols == 3

\* a key of the registry, 'v' followed by the digits
ProtocolKey(digits) == [type |-> "string", digits |-> digits]

\* v1 .. v3 and v10
ProtocolKeys == {ProtocolKey(<< n >>) : n \in 1..MaxProtocols} \cup {ProtocolKey(<< 1, 0 >>)}

\* lines 735-740: an object literal, its keys in the order they are written
Registries ==
    {registry \in UNION {[1..n -> ProtocolKeys] : n \in 0..Cardinality(ProtocolKeys)} :
        \A i, j \in DOMAIN registry : i # j => registry[i] # registry[j]}

\* the entry whose key no other key follows in the order of strings
preferredProtocolHighest(registry) ==
    IF registry = << >> THEN UNDEFINED
    ELSE CHOOSE key \in {registry[i] : i \in DOMAIN registry} :
             \A i \in DOMAIN registry : ~LevelsLess(key.digits, registry[i].digits)

\* line 741: protocols[Object.keys(protocols)[0]], the first protocol
preferredProtocol(registry) ==
    IF registry = << >> THEN UNDEFINED ELSE Head(registry)

\* the module before line 741 has run, over some registry
InitRegistry ==
    /\ notaryTag = UNDEFINED
    /\ version = UNDEFINED
    /\ timestamp = UNDEFINED
    /\ publicKey = UNDEFINED
    /\ privateKey = UNDEFINED
    /\ notaryCertificate = UNDEFINED
    /\ certificateCitation = UNDEFINED
    /\ initializeAPI = TRUE
    /\ keyFile = ABSENT
    /\ certificateFile = ABSENT
    /\ now = 0
    /\ keys = 0
    /\ tags = 0
    /\ \E registry \in Registries :
           result = Call("protocols", registry, FALSE, Returned(UNDEFINED))
    /\ faults = 0
    /\ oldCertificate = UNDEFINED
    /\ forgotten = FALSE
    /\ unawaited = [calls |-> << >>, files |-> << ABSENT, ABSENT >>]

\* line 741 runs when the module is loaded
Require ==
    /\ result.op = "protocols"
    /\ result' = Call("preferredProtocol", result.input, FALSE,
                      Returned(preferredProtocol(result.input)))
    /\ UNCHANGED << memory, files, now, keys, tags, faults, oldCertificate, forgotten,
                    unawaited >>

NextRegistry == Require

SpecRegistry == InitRegistry /\ [][NextRegistry]_vars

(***************************************************************************)
(* Properties.                                                             *)
(***************************************************************************)
\* the last call was signComponent and it returned a document
Signed == result.op = "signComponent" /\ ~result.thrown

\* the last call was generateKey, made while a private key was present
Rotated == result.op = "generateKey" /\ result.active

\* the $version parameter of the certificate inside a certificate document
CertifiedVersion(certificate) ==
    getParameter(getValue(certificate, "$component"), "$version")

\* C1: signComponent called while a private key is present returns a document, for
\* every component (a notarized document handed in again included), and
\* documentIsValid accepts that document under the certificate that
\* getCertificate returns.
C1_SignVerifyRoundTrip ==
    (result.op = "signComponent" /\ result.active) =>
        /\ ~result.thrown
        /\ documentIsValid(result.value, notaryCertificate)

\* a document notarized a second time, after a rotation, has been signed
C1_Witness ==
    /\ Signed
    /\ result.active
    /\ result.input \notin Components
    /\ oldCertificate # UNDEFINED

\* C2: the certificate document returned by a generateKey that found a private key
\* is valid under the certificate it replaces: it is signed with the old key.
C2_ChainVerifiable ==
    (Rotated /\ ~result.thrown) => documentIsValid(result.value, oldCertificate)

\* a rotation has returned its certificate
C2_Witness ==
    /\ Rotated
    /\ ~result.thrown
    /\ oldCertificate # UNDEFINED
    /\ result.value = notaryCertificate

\* C3: once a rotation has happened, every document that signComponent returns is
\* rejected under the certificate the rotation replaced and accepted under the
\* certificate held now.
C3_RotationSupersedes ==
    (Signed /\ oldCertificate # UNDEFINED) =>
        /\ ~documentIsValid(result.value, oldCertificate)
        /\ documentIsValid(result.value, notaryCertificate)

\* a document has been signed after a rotation
C3_Witness ==
    /\ Signed
    /\ oldCertificate # UNDEFINED
    /\ result.input \in Parameterized

\* C4: after forgetKey has completed, and until a generateKey returns a
\* certificate, every signComponent fails with $missingKey.
C4_ForgetIsFinal ==
    (forgotten /\ result.op = "signComponent") =>
        (result.thrown /\ result.exception = "$missingKey")

\* C5: when forgetKey returns without an error, neither NotaryKey.bali nor
\* NotaryCertificate.bali exists.
C5_ForgetRemovesFiles ==
    (result.op = "forgetKey" /\ ~result.thrown) =>
        (keyFile = ABSENT /\ certificateFile = ABSENT)

\* the notarized documents of a state: the one just returned and the certificates
Documents ==
    {d \in {result.value, notaryCertificate, oldCertificate} : ValidDocument(d)}

\* C6: for every valid notarized document d, the citation that citeDocument
\* makes of d matches d.
C6_CiteMatchRoundTrip ==
    \A d \in Documents :
        LET citation == apiCiteDocument(d, now)
        IN  /\ ~citation.thrown
            /\ apiCitationMatches(citation.value, d) = Returned(Boolean(TRUE))

\* a notarized component and a certificate are both at hand
C6_Witness ==
    /\ Signed
    /\ result.value \in Documents
    /\ notaryCertificate \in Documents

\* C7: the citation of a notarized document does not match a document notarized
\* from a different component, nor the certificate; citationMatches returns
\* false and throws nothing.
C7_CitationDiscriminates ==
    (Signed /\ result.value \in Documents) =>
        \A other \in {Notarized(Current, c, t) :
                          c \in Parameterized \ {result.input}, t \in 0..now}
                     \cup {notaryCertificate} :
            apiCitationMatches(apiCiteDocument(result.value, now).value, other)
                = Returned(Boolean(FALSE))

\* a component carrying the four parameters has been notarized
C7_Witness ==
    /\ Signed
    /\ result.input \in Parameterized
    /\ result.value \in Documents

\* C8: while a private key is present, every component encrypted for the current
\* certificate decrypts to the same component.
C8_EncryptionRoundTrip ==
    (privateKey # UNDEFINED /\ ~initializeAPI) =>
        \A m \in Components, t \in 0..now :
            LET aem == apiEncryptComponent(m, notaryCertificate, 0, 0, t)
            IN  /\ ~aem.thrown
                /\ apiDecryptComponent(Current, "ok", aem.value).completion = Returned(m)

\* after a rotation, decryptComponent has returned a component
C8_Witness ==
    /\ result.op = "decryptComponent"
    /\ ~result.thrown
    /\ result.value \in Parameterized
    /\ result.input = encryptComponent(result.value, notaryCertificate, 0, 0, now)
    /\ oldCertificate # UNDEFINED

\* the AEMs for the current certificate whose $ciphertext, $iv or $auth was altered
AlteredAEMs ==
    {Alter(encryptComponent(Bare, notaryCertificate, 0, 0, t), a) :
        t \in 0..now, a \in {"$ciphertext", "$iv", "$auth"}}

\* C9: decryptComponent of an AEM for the current key whose $ciphertext, $iv or
\* $auth was altered fails with an error of kind AuthenticationFailed.
C9_DecryptFailureKind ==
    (/\ result.op = "decryptComponent"
     /\ result.active
     /\ notaryCertificate # UNDEFINED
     /\ result.input \in AlteredAEMs) =>
        (result.thrown /\ result.exception = "AuthenticationFailed")

\* C11: a call of initializeAPI made after an earlier call has succeeded succeeds
\* too and leaves the in-memory state and the files as they were.
C11_InitializeIdempotent ==
    [][(InitializeAPI /\ ~initializeAPI) =>
          (~result'.thrown /\ UNCHANGED << memory, files >>)]_vars

\* C10: a rotation gives the new certificate a version strictly greater than the
\* version of the certificate it replaces, and the cached citation carries the
\* version of the new certificate.
C10_VersionMonotonic ==
    Rotated =>
        /\ VersionLess(CertifiedVersion(oldCertificate), CertifiedVersion(notaryCertificate))
        /\ getValue(certificateCitation, "$version") = CertifiedVersion(notaryCertificate)

\* a rotation has happened
C10_Witness ==
    /\ Rotated
    /\ ~result.thrown
    /\ CertifiedVersion(oldCertificate) = InitialVersion

\* the last call was generateKey, made while no private key was present
Generated == result.op = "generateKey" /\ ~result.active

\* C12: the certificate document returned by a generateKey that found no private
\* key (fresh directory, or after forgetKey) has $version v1 and $previous none in
\* its component, has $certificate none, and is valid under itself.
C12_GenesisCertificate ==
    (Generated /\ ~result.thrown) =>
        /\ CertifiedVersion(result.value) = InitialVersion
        /\ getParameter(getValue(result.value, "$component"), "$previous") = NONE
        /\ getValue(result.value, "$certificate") = NONE
        /\ apiDocumentIsValid(result.value, result.value) = Returned(Boolean(TRUE))

\* a key has been generated again after forgetKey
C12_Witness ==
    /\ Generated
    /\ ~result.thrown
    /\ keys = 2
    /\ result.value = notaryCertificate

Uninitialized == ~initializeAPI /\ privateKey = UNDEFINED

\* C15: while the SSM is initialized and holds no private key (no key file at
\* startup, or after forgetKey), signComponent and decryptComponent fail with
\* $missingKey, getCertificate and getCitation return nothing, and none of these
\* calls changes the in-memory state or the files.
C15_UninitializedRefuses ==
    [][Uninitialized =>
          /\ (SignComponent \/ DecryptComponent) =>
                 /\ result'.thrown
                 /\ result'.exception = "$missingKey"
                 /\ UNCHANGED << memory, files >>
          /\ (GetCertificate \/ GetCitation) =>
                 /\ ~result'.thrown
                 /\ result'.value = UNDEFINED
                 /\ UNCHANGED << memory, files >>]_vars

\* decryptComponent has been refused after forgetKey
C15_Witness ==
    /\ Uninitialized
    /\ forgotten
    /\ result.op = "decryptComponent"
    /\ result.thrown
    /\ result.exception = "$missingKey"

\* C16: signComponent of a component that lacks the parameters $tag, $version,
\* $permissions and $previous fails with $invalidParameter and produces no document.
C16_MalformedComponentRejected ==
    (result.op = "signComponent" /\ result.active /\ result.input = Bare) =>
        (result.thrown /\ result.exception = "$invalidParameter")

\* an artifact naming a protocol version that the registry does not hold
Unregistered(artifact) == setValue(artifact, "$protocol", Version(<< 2 >>))

\* C17: citationMatches, documentIsValid and encryptComponent, given a well-formed
\* citation or certificate whose $protocol is not in the registry, fail with
\* $unsupportedProtocol.
C17_UnsupportedProtocolOnConsumption ==
    (Signed /\ result.value \in Documents) =>
        LET certificate == Unregistered(notaryCertificate)
            citation == Unregistered(apiCiteDocument(result.value, now).value)
        IN  /\ apiCitationMatches(citation, result.value) = Thrown("$unsupportedProtocol")
            /\ apiDocumentIsValid(result.value, certificate) = Thrown("$unsupportedProtocol")
            /\ apiEncryptComponent(result.input, certificate, 0, 0, now)
                   = Thrown("$unsupportedProtocol")

\* AEMs for the current certificate that name protocol v2: one otherwise intact,
\* the others with an attribute that decryption would reject
OtherProtocolAEMs ==
    LET aem == Unregistered(encryptComponent(Bare, notaryCertificate, 0, 0, now))
    IN  {aem} \cup {Alter(aem, a) : a \in {"$ciphertext", "$iv", "$auth"}}

\* C18: while a private key is present, decryptComponent of an AEM whose $protocol
\* is not v1 fails with $unsupportedProtocol, whatever decryption would have
\* found, and leaves the state unchanged.
C18_DecryptChecksProtocolFirst ==
    (privateKey # UNDEFINED /\ ~initializeAPI) =>
        \A aem \in OtherProtocolAEMs :
            apiDecryptComponent(Current, "ok", aem)
                = Outcome(Current, Thrown("$unsupportedProtocol"))

\* decryptComponent has refused an AEM of protocol v2
C18_Witness ==
    /\ result.op = "decryptComponent"
    /\ result.active
    /\ result.input \in OtherProtocolAEMs
    /\ result.thrown
    /\ result.exception = "$unsupportedProtocol"

\* C19: for a well-formed document and a well-formed certificate of protocol v1
\* whose key did not sign the document, documentIsValid returns false; for a
\* well-formed citation of another document, citationMatches returns false;
\* neither throws.
C19_ValidationFailuresAreValues ==
    (Signed /\ result.value \in Documents /\ oldCertificate # UNDEFINED) =>
        /\ apiDocumentIsValid(result.value, oldCertificate) = Returned(Boolean(FALSE))
        /\ apiDocumentIsValid(oldCertificate, notaryCertificate)
               = Returned(Boolean(FALSE))
        /\ apiCitationMatches(apiCiteDocument(oldCertificate, now).value, result.value)
               = Returned(Boolean(FALSE))
        /\ apiCitationMatches(certificateCitation, result.value)
               = Returned(Boolean(FALSE))

\* a component has been notarized with the key that replaced an earlier one
C19_Witness ==
    /\ Signed
    /\ result.value \in Documents
    /\ oldCertificate # UNDEFINED
    /\ ValidDocument(oldCertificate)
    /\ getValue(result.value, "$certificate") = certificateCitation

\* C20: a generateKey that reports an error leaves the in-memory private key,
\* public key, version, certificate and citation as they were before the call.
C20_CommitOnSuccess ==
    [][(GenerateKey /\ result'.thrown) =>
          UNCHANGED << privateKey, publicKey, version, notaryCertificate,
                       certificateCitation >>]_vars


\* the configuration directory holds a complete pair: no file at all, or a whole
\* key file and a whole certificate file of the same generation (the citation in
\* the key file is the citation of the document in the certificate file)
Paired ==
    \/ keyFile = ABSENT /\ certificateFile = ABSENT
    \/ /\ Readable(keyFile)
       /\ Readable(certificateFile)
       /\ citationMatches(getValue(parse(keyFile.text), "$certificate"),
                          parse(certificateFile.text))

\* C21: a generateKey (first generation or rotation) that finds a complete pair of
\* files leaves a complete pair of files, the old one or the new one, also when
\* one of its writes fails.
C21_AtomicReplacement ==
    [][(GenerateKey /\ Paired) => Paired']_vars

\* the $tag parameter of the certificate inside a certificate document
CertifiedTag(certificate) ==
    getParameter(getValue(certificate, "$component"), "$tag")

\* C22: after a generateKey made while a private key was present, the new
\* certificate carries the $tag of the certificate it replaced, and so does the
\* cached citation.
C22_StableTag ==
    Rotated =>
        /\ oldCertificate # UNDEFINED
        /\ CertifiedTag(notaryCertificate) = CertifiedTag(oldCertificate)
        /\ getValue(certificateCitation, "$tag") = CertifiedTag(oldCertificate)

\* a rotation has returned the second version of the certificate
C22_Witness ==
    /\ Rotated
    /\ ~result.thrown
    /\ result.value = notaryCertificate
    /\ CertifiedVersion(notaryCertificate) = Version(<< 2 >>)
    /\ CertifiedTag(notaryCertificate) = Tag(1)

\* C26: a generateKey that finds no private key and returns a certificate gives
\* it a tag that bali.tag() had not produced before the call, so a tag that no
\* earlier certificate of the instance carries.
C26_FreshTagOnGenesis ==
    [][(GenerateKey /\ ~result'.active /\ ~result'.thrown) =>
          CertifiedTag(notaryCertificate') \notin {Tag(n) : n \in 1..tags}]_vars

\* the $previous parameter of the certificate inside a certificate document
CertifiedPrevious(certificate) ==
    getParameter(getValue(certificate, "$component"), "$previous")

\* C27: in the certificate document returned by a generateKey that found a private
\* key, the $previous parameter of the component and the $certificate attribute
\* are one citation, and citationMatches accepts it for the certificate that was
\* replaced; in the one returned by a generateKey that found no key both are none.
C27_ChainLinks ==
    (result.op = "generateKey" /\ ~result.thrown) =>
        IF result.active
        THEN /\ CertifiedPrevious(result.value) = getValue(result.value, "$certificate")
             /\ apiCitationMatches(CertifiedPrevious(result.value), oldCertificate)
                    = Returned(Boolean(TRUE))
        ELSE /\ CertifiedPrevious(result.value) = NONE
             /\ getValue(result.value, "$certificate") = NONE

\* a rotation has returned a certificate that cites the first one
C27_Witness ==
    /\ Rotated
    /\ ~result.thrown
    /\ isCatalog(CertifiedPrevious(result.value))
    /\ getValue(CertifiedPrevious(result.value), "$version") = InitialVersion
    /\ CertifiedVersion(oldCertificate) = InitialVersion

\* a new instance has been made right after the instance before it returned from
\* generateKey without an error
RestartedAfterGenerateKey ==
    /\ result.op = "privateAPI"
    /\ result.input.op = "generateKey"
    /\ ~result.input.thrown

\* C23: a new instance made on the directory of an instance whose generateKey
\* just returned its certificate reports, once its files are read, the same
\* certificate and the same citation, and every document it signs is valid
\* under that certificate.
C23_PersistenceRoundTrip ==
    RestartedAfterGenerateKey =>
        /\ apiGetCertificate(Current, "ok").completion = Returned(result.input.certificate)
        /\ apiGetCitation(Current, "ok").completion = Returned(result.input.citation)
        /\ \A component \in Parameterized :
              apiDocumentIsValid(
                  apiSignComponent(Current, "ok", component, now).completion.value,
                  result.input.certificate) = Returned(Boolean(TRUE))

\* a new instance has been made after a rotation that returned
C23_Witness ==
    /\ RestartedAfterGenerateKey
    /\ result.active
    /\ CertifiedVersion(result.input.certificate) = Version(<< 2 >>)
    /\ Readable(keyFile)
    /\ Readable(certificateFile)

\* C28: whenever the SSM is initialized and holds a private key, citationMatches
\* accepts the cached citation for the cached certificate, and the citation
\* carries the $tag and $version of the certificate component.
C28_CitationMatchesCertificate ==
    (~initializeAPI /\ privateKey # UNDEFINED) =>
        /\ apiCitationMatches(certificateCitation, notaryCertificate)
               = Returned(Boolean(TRUE))
        /\ getValue(certificateCitation, "$tag") = CertifiedTag(notaryCertificate)
        /\ getValue(certificateCitation, "$version") = CertifiedVersion(notaryCertificate)

\* the attributes that documentIsValid extracts (lines 109-114)
Covered == {"$component", "$protocol", "$timestamp", "$certificate"}

\* other values for an attribute of a notarized document
Replacements(attribute) ==
    CASE attribute = "$component" -> << Bare, Catalog(<< >>, ComponentParameters) >>
      [] attribute = "$protocol" -> << Version(<< 1 >>), Version(<< 2 >>) >>
      [] attribute = "$timestamp" -> [t \in 1..(MaxClock + 2) |-> Moment(t - 1)]
      [] attribute = "$certificate" ->
             << NONE, certificateCitation,
                citeDocument(notaryCertificate, now + 1).value >>

\* the seal of the document is valid under the certificate, stays valid when an
\* attribute outside the covered ones is added, and is not valid any more once a
\* covered attribute has another value
Covers(document, certificate) ==
    /\ documentIsValid(document, certificate)
    /\ documentIsValid(setValue(document, "$note", Text("bar")), certificate)
    /\ \A attribute \in Covered :
          \A i \in DOMAIN Replacements(attribute) :
             Replacements(attribute)[i] # getValue(document, attribute) =>
                ~documentIsValid(setValue(document, attribute, Replacements(attribute)[i]),
                                 certificate)

\* C29: for every document that signComponent returns, and for the certificate
\* document itself, documentIsValid is true under the signing certificate, stays
\* true when an attribute other than the four covered ones is added, and is false
\* when any one of $component, $protocol, $timestamp and $certificate is replaced
\* by a different value.
C29_SignatureCoverage ==
    (Signed /\ result.active) =>
        /\ Covers(result.value, notaryCertificate)
        /\ Covers(notaryCertificate,
                  IF getValue(notaryCertificate, "$certificate") = NONE
                  THEN notaryCertificate ELSE oldCertificate)

\* a document has been signed, and each covered attribute has another value to take
C29_Witness ==
    /\ Signed
    /\ result.active
    /\ result.input \in Parameterized
    /\ oldCertificate # UNDEFINED
    /\ \A attribute \in Covered :
          \E i \in DOMAIN Replacements(attribute) :
             Replacements(attribute)[i] # getValue(result.value, attribute)

\* C30: documentIsValid of the notary API takes the suite named by the $protocol
\* of the document under test: a document of the registered protocol v1 is
\* verified by the v1 suite also when the certificate document names another
\* protocol, and a document that names a protocol without a suite is refused
\* whatever the certificate names.
C30_DocumentSelectsSuite ==
    (Signed /\ result.active /\ result.input \in Parameterized) =>
        /\ apiDocumentIsValid(result.value, Unregistered(notaryCertificate))
               = Returned(Boolean(documentIsValid(result.value,
                                                  Unregistered(notaryCertificate))))
        /\ apiDocumentIsValid(Unregistered(result.value), notaryCertificate).thrown

\* the configuration directory as the $directory attribute of an exception
configDirectory == Text("directory")

\* the attribute values that bali.exception() is given for the exception that ended
\* a call, with the key of the notary key record added to $directoryAccess
ExceptionAttributesWithKey(call) ==
    CASE call.exception = "$missingKey" -> << accountId >>
      [] call.exception = "$unsupportedProtocol" ->
             << parse(PROTOCOL), getValue(call.input, "$protocol") >>
      [] call.exception = "$directoryAccess" -> << accountId, privateKey >>
      [] call.exception = "$unexpected" -> << accountId, configDirectory, call.input >>
      [] call.exception = "$invalidParameter" -> << Text(call.op), call.input >>
      [] OTHER -> << >>

\* the attribute values that bali.exception() is given for the exception that ended
\* a call: $missingKey (lines 388-395, 420-427), $unsupportedProtocol (431-439),
\* $directoryAccess (219-227, 340-347), $unexpected (231-239 when it comes from
\* initializeAPI, else the wrapper's, which adds the argument of the call, e.g.
\* 1148-1154 and 1237-1243), $invalidParameter (1388-1395); a native error has none
ExceptionAttributes(call) ==
    CASE call.exception = "$missingKey" -> << accountId >>
      [] call.exception = "$unsupportedProtocol" ->
             << parse(PROTOCOL), getValue(call.input, "$protocol") >>
      [] call.exception = "$directoryAccess" -> << accountId >>
      [] call.exception = "$unexpected" -> << accountId, configDirectory, call.input >>
      [] call.exception = "$invalidParameter" -> << Text(call.op), call.input >>
      [] OTHER -> << >>

\* the value x is the value v or a part of it
RECURSIVE Occurs(_, _)
Occurs(x, v) ==
    \/ v = x
    \/ /\ isCatalog(v)
       /\ \/ \E i \in DOMAIN v.attributes : Occurs(x, v.attributes[i].value)
          \/ \E i \in DOMAIN v.parameters : Occurs(x, v.parameters[i].value)

\* C25: whenever a call has ended with an exception, no private key that the SSM
\* has generated is an attribute of the exception or a part of one.
C25_NoPrivateKeyInErrors ==
    result.thrown =>
        \A k \in 1..keys :
           \A i \in DOMAIN ExceptionAttributes(result) :
              ~Occurs(PrivateKey(k), ExceptionAttributes(result)[i])

\* a rotation has failed on its writes while the SSM holds a private key
C25_Witness ==
    /\ result.thrown
    /\ result.op = "generateKey"
    /\ result.exception = "$directoryAccess"
    /\ result.active
    /\ privateKey = PrivateKey(keys)

\* C24: a generateKey or forgetKey that was not awaited returns the value it
\* returns when the calls are executed one at a time in the order of invocation,
\* and once no call is in flight the two files are those that this execution
\* leaves.
C24_FIFO ==
    /\ result.op \in {"generateKey", "forgetKey"} => result.value = result.input
    /\ unawaited.calls = << >> => << keyFile, certificateFile >> = unawaited.files

\* C32: the certificate document that a generateKey made while a private key was
\* present leaves in memory is signed with the replaced key: documentIsValid
\* rejects it under itself, while it accepts under itself the certificate of a
\* generateKey that found no key.
C32_OnlyGenesisSelfSigned ==
    (result.op = "generateKey" /\ notaryCertificate # UNDEFINED /\ ~initializeAPI) =>
        apiDocumentIsValid(notaryCertificate, notaryCertificate)
            = Returned(Boolean(~result.active))

\* a rotation has returned a certificate that carries a new public key
C32_Witness ==
    /\ Rotated
    /\ ~result.thrown
    /\ result.value = notaryCertificate
    /\ getValue(getValue(notaryCertificate, "$component"), "$publicKey") = PublicKey(keys)
    /\ keys > 1

\* C37: once a rotation has replaced the private key, decryptComponent of an AEM
\* encrypted for the replaced certificate throws and returns no component, while
\* an AEM encrypted for the current certificate decrypts to the component that
\* was encrypted.
C37_OldKeyDiscarded ==
    (privateKey # UNDEFINED /\ ~initializeAPI /\ oldCertificate # UNDEFINED) =>
        \A m \in Components, t \in 0..now :
            /\ apiDecryptComponent(Current, "ok",
                   encryptComponent(m, oldCertificate, 0, 0, t)).completion.thrown
            /\ apiDecryptComponent(Current, "ok",
                   encryptComponent(m, notaryCertificate, 0, 0, t)).completion = Returned(m)

\* after a rotation, decryptComponent has refused an AEM for the replaced certificate
C37_Witness ==
    /\ result.op = "decryptComponent"
    /\ result.active
    /\ result.thrown
    /\ oldCertificate # UNDEFINED
    /\ result.input = encryptComponent(Bare, oldCertificate, 0, 0, now)
    /\ privateKey = PrivateKey(keys)

\* the well-formed citations that carry the $digest of the given citation under
\* other values of $tag, $version and $timestamp
Recited(citation) ==
    {setValue(citation, "$tag", Tag(n)) : n \in 1..(tags + 1)}
    \cup {setValue(citation, "$version", Version(<< v >>)) : v \in 1..(keys + 1)}
    \cup {setValue(citation, "$timestamp", Moment(t)) : t \in 0..MaxClock}
    \cup {setValue(setValue(setValue(citation, "$tag", Tag(tags + 1)),
                            "$version", Version(<< keys + 1 >>)),
                   "$timestamp", Moment(t)) : t \in 0..MaxClock}

\* C38: two well-formed citations with the same $digest and different $tag,
\* $version or $timestamp get the same answer from citationMatches for every
\* document: true for the cited document and false for another one, whatever
\* tag and version the document's component carries.
C38_CitationMatchesByDigestOnly ==
    (Signed /\ result.value \in Documents) =>
        LET citation == apiCiteDocument(result.value, now).value
        IN  /\ apiCitationMatches(citation, result.value) = Returned(Boolean(TRUE))
            /\ apiCitationMatches(citation, notaryCertificate) = Returned(Boolean(FALSE))
            /\ \A other \in Recited(citation) :
                   /\ apiCitationMatches(other, result.value) = Returned(Boolean(TRUE))
                   /\ apiCitationMatches(other, notaryCertificate)
                          = Returned(Boolean(FALSE))

\* a notarized document exists whose citation differs from one of its recitations
\* in tag and version
C38_Witness ==
    /\ Signed
    /\ result.value \in Documents
    /\ \E other \in Recited(apiCiteDocument(result.value, now).value) :
           /\ getValue(other, "$tag") # getParameter(result.input, "$tag")
           /\ getValue(other, "$version") # getParameter(result.input, "$version")
           /\ getValue(other, "$digest") = digestMessage(toString(result.value))

\* C39: on an initialized instance a step whose call is getCertificate,
\* getCitation, signComponent or decryptComponent, whether it returns or throws,
\* leaves the in-memory variables and both files as they were, and a step that
\* changes any of them is a generateKey or a forgetKey.
C39_ReadOnlyOperations ==
    [][~initializeAPI =>
          /\ result'.op \in {"getCertificate", "getCitation", "signComponent",
                             "decryptComponent"} =>
                 UNCHANGED << memory, files >>
          /\ (<< memory, files >>' # << memory, files >>) =>
                 result'.op \in {"generateKey", "forgetKey"}]_vars

\* on an initialized instance with a key and both files, decryptComponent has thrown
C39_Witness ==
    /\ result.op = "decryptComponent"
    /\ result.active
    /\ result.thrown
    /\ ~initializeAPI
    /\ privateKey # UNDEFINED
    /\ keyFile # ABSENT
    /\ certificateFile # ABSENT

\* C33: on an instance that has not been initialized, over a directory with a
\* readable key file and certificate file, each of the six operations acts on the
\* loaded state: getCertificate and getCitation return what the files hold,
\* signComponent succeeds with the loaded key, decryptComponent and forgetKey do
\* what they do on the loaded instance, and generateKey makes a certificate of
\* the next version that cites the loaded one as $previous.
C33_LazyInitialization ==
    (initializeAPI /\ Readable(keyFile) /\ Readable(certificateFile)) =>
        LET loaded == initialize(Current, "ok").state
            key == parse(keyFile.text)
            certificate == parse(certificateFile.text)
            generated == apiGenerateKey(Current, "ok", "ok", keys + 1, tags + 1, now)
        IN  /\ ~loaded.initializeAPI
            /\ loaded.privateKey = getValue(key, "$privateKey")
            /\ apiGetCertificate(Current, "ok") = Outcome(loaded, Returned(certificate))
            /\ apiGetCitation(Current, "ok")
                   = Outcome(loaded, Returned(getValue(key, "$certificate")))
            /\ \A component \in Parameterized :
                   apiSignComponent(Current, "ok", component, now)
                       = Outcome(loaded, Returned(Notarized(loaded, component, now)))
            /\ apiDecryptComponent(Current, "ok",
                                   encryptComponent(Bare, certificate, 0, 0, now))
                   = apiDecryptComponent(loaded, "ok",
                                         encryptComponent(Bare, certificate, 0, 0, now))
            /\ apiForgetKey(Current, "ok", "ok") = apiForgetKey(loaded, "ok", "ok")
            /\ ~generated.completion.thrown
            /\ CertifiedPrevious(generated.completion.value)
                   = getValue(key, "$certificate")
            /\ CertifiedVersion(generated.completion.value)
                   = nextVersion(getValue(getValue(key, "$certificate"), "$version"))

\* a new instance stands over the files that a rotation of the one before it left
C33_Witness ==
    /\ initializeAPI
    /\ privateKey = UNDEFINED
    /\ result.op = "privateAPI"
    /\ Readable(keyFile)
    /\ Readable(certificateFile)
    /\ CertifiedVersion(parse(certificateFile.text)) = Version(<< 2 >>)
    /\ ~apiSignComponent(Current, "ok", Bare, now).completion.thrown

\* the in-memory state that a new instance obtains by initializeAPI from the files
Reloaded == initialize(privateAPI(Current), "ok").state

\* the notary tag, version, keys, certificate and citation of a module state
Held(s) == << s.notaryTag, s.version, s.publicKey, s.privateKey,
              s.notaryCertificate, s.certificateCitation >>

\* C34: while every call has returned, the in-memory tag, version, keys,
\* certificate and citation equal those that a new instance loads from the same
\* directory, and the two instances give the same outcome for generateKey.
C34_RestartEquivalence ==
    (faults = 0 /\ ~initializeAPI) =>
        /\ Held(Current) = Held(Reloaded)
        /\ apiGenerateKey(Current, "ok", "ok", keys + 1, tags + 1, now).completion
               = apiGenerateKey(Reloaded, "ok", "ok", keys + 1, tags + 1, now).completion

\* C35: the private key, the notary certificate and the certificate citation are
\* all present or all absent in every state in which no call is running, states
\* loaded from the files that the module left and states after a failed call
\* included.
C35_InMemoryCoherence ==
    \/ privateKey = UNDEFINED /\ notaryCertificate = UNDEFINED
           /\ certificateCitation = UNDEFINED
    \/ privateKey # UNDEFINED /\ notaryCertificate # UNDEFINED
           /\ certificateCitation # UNDEFINED

\* the keys of a registry
Listed(registry) == {registry[i] : i \in DOMAIN registry}

C36_SingleLoad ==
    /\ unawaited.loads <= 1
    /\ unawaited.installed.privateKey # UNDEFINED =>
           Installed(Current) = unawaited.installed

====
